---- MODULE Spec2Model ----
(***************************************************************************)
(* A model of wood's comparison engine (wood/comparison.py), its entity    *)
(* model (wood/entities.py) and util.zip_dict and util.chunk               *)
(* (wood/util.py).                                                         *)
(*                                                                         *)
(* Python strings are modelled as sequences of one-character strings, so   *)
(* that concatenation, prefixes and suffixes are computed, not assumed:    *)
(* the name "ab" is <<"a", "b">> and the empty name of Root is << >>.      *)
(* A pathlib.PurePath is modelled as the sequence of its parts.            *)
(***************************************************************************)
EXTENDS Integers, Sequences, FiniteSets, TLC

\* the two snapshots, the comparison tree built from them and the call of a
\* traversal: its name, its arguments and what it yielded
VARIABLES left, right, pc, comparison, raised, op, args, out

\* an earlier call of a traversal, as its caller keeps it
VARIABLES remembered

\* util.chunk: its arguments, the position of the shared iterator, the
\* chunk handed out last, and what the consumer has taken from the chunks
VARIABLES iterable, n, iterator, chunk_, taken, abandoned

comparison_vars == <<left, right, comparison, raised, op, args, out, remembered>>

chunk_vars == <<iterable, n, iterator, chunk_, taken, abandoned>>

vars == <<pc, comparison_vars, chunk_vars>>

(***************************************************************************)
(* Bounds of the model.                                                    *)
(***************************************************************************)
\* the number of levels of entities below the top entity
MaxDepth == 2
\* the number of paths of the two trees together (the nodes of the
\* comparison tree), the top counted unless it is a Root
MaxNodes == 4

(***************************************************************************)
(* Strings.                                                                *)
(***************************************************************************)
SLASH == <<"/">>
STAR == <<"*">>
DOT == <<".">>

\* entity names in ascending order: "a" is a proper prefix of "ab"
NameOrder == << <<"a">>, <<"a", "b">> >>

Names == {NameOrder[i] : i \in DOMAIN NameOrder}
\* the name of a named top-level entity
TopName == <<"t">>

StartsWith(s, prefix) ==
    /\ Len(prefix) <= Len(s)
    /\ SubSeq(s, 1, Len(prefix)) = prefix

EndsWith(s, suffix) ==
    /\ Len(suffix) <= Len(s)
    /\ SubSeq(s, Len(s) - Len(suffix) + 1, Len(s)) = suffix

\* posixpath.join(a, b)
OsPathJoin(a, b) ==
    IF StartsWith(b, SLASH) THEN b
    ELSE IF a = << >> \/ EndsWith(a, SLASH) THEN a \o b
    ELSE a \o SLASH \o b

\* pathlib.PurePath(): the path with no parts
PurePath == << >>

\* base / name: an empty segment is dropped
PathDiv(base, name) == IF name = << >> THEN base ELSE Append(base, name)

RECURSIVE JoinParts(_)
JoinParts(parts) ==
    IF Len(parts) = 1 THEN parts[1]
    ELSE parts[1] \o SLASH \o JoinParts(Tail(parts))

\* str(path): the parts joined by '/', and '.' for the path with no parts
PathStr(path) == IF path = << >> THEN DOT ELSE JoinParts(path)

(***************************************************************************)
(* Entities (wood/entities.py).                                            *)
(***************************************************************************)
None == [kind |-> "None"]

File(name, size, md5) ==
    [kind |-> "File", name |-> name, size |-> size, md5 |-> md5]

Directory(name, children) ==
    [kind |-> "Directory", name |-> name, children |-> children]

Root(children) ==
    [kind |-> "Root", name |-> << >>, children |-> children]

\* isinstance(e, File)
IsFile(e) == e.kind = "File"

\* isinstance(e, Directory): Root is a subclass of Directory
IsDirectory(e) == e.kind \in {"Directory", "Root"}

\* the empty dict
EmptyDict == [k \in {} |-> None]

\* dict.get(key)
Get(d, key) == IF key \in DOMAIN d THEN d[key] ELSE None

(***************************************************************************)
(* The entity trees the comparisons are drawn from: well-formed (a child   *)
(* is keyed by its own name), at most depth levels, at most nodes entities.*)
(***************************************************************************)
RECURSIVE Size(_)
RECURSIVE SizeOver(_, _)
SizeOver(d, keys) ==
    IF keys = {} THEN 0
    ELSE LET k == CHOOSE x \in keys : TRUE
         IN  Size(d[k]) + SizeOver(d, keys \ {k})

Size(e) == IF IsDirectory(e) THEN 1 + SizeOver(e.children, DOMAIN e.children)
           ELSE 1

RECURSIVE ChildDicts(_, _, _)
EntitiesNamed(name, depth, nodes, fingerprints) ==
    IF depth = 0 \/ nodes = 0 THEN {}
    ELSE {File(name, 1, md5) : md5 \in fingerprints}
         \cup {Directory(name, d) :
                  d \in ChildDicts(depth - 1, nodes - 1, fingerprints)}

ChildDicts(depth, nodes, fingerprints) ==
    UNION {
        {d \in [keys -> UNION {EntitiesNamed(k, depth, nodes, fingerprints) :
                                  k \in keys}] :
            /\ \A k \in keys : d[k].name = k
            /\ SizeOver(d, keys) <= nodes} :
        keys \in SUBSET Names}

\* the fingerprints of test_directory_not_removed
Fingerprints == {"abc", "abcd"}

\* Only the equality of two fingerprints is ever observed, so the files of
\* the left tree all carry one fingerprint and those of the right tree any.
LeftFingerprints == {"abc"}

TopEntities(fingerprints) ==
    {Root(d) : d \in ChildDicts(MaxDepth, MaxNodes, fingerprints)}
    \cup EntitiesNamed(TopName, MaxDepth + 1, MaxNodes, fingerprints)

\* the number of paths of two trees together, their common top included
RECURSIVE PairSize(_, _)
RECURSIVE PairSizeOver(_, _, _)
PairSizeOver(lc, rc, keys) ==
    IF keys = {} THEN 0
    ELSE LET k == CHOOSE x \in keys : TRUE
         IN  PairSize(Get(lc, k), Get(rc, k))
             + PairSizeOver(lc, rc, keys \ {k})

PairSize(l, r) ==
    LET lc == IF IsDirectory(l) THEN l.children ELSE EmptyDict
        rc == IF IsDirectory(r) THEN r.children ELSE EmptyDict
    IN  1 + PairSizeOver(lc, rc, DOMAIN lc \cup DOMAIN rc)

\* A fingerprint is only ever read to compare the two files at one path, so
\* a file of the right tree carries the second fingerprint only opposite a
\* file of the left tree.
RECURSIVE Opposed(_, _)
Opposed(l, r) ==
    /\ IsFile(r) /\ ~IsFile(l) => r.md5 \in LeftFingerprints
    /\ IsDirectory(r)
       => \A k \in DOMAIN r.children :
             Opposed(IF IsDirectory(l) THEN Get(l.children, k) ELSE None,
                     r.children[k])

\* The two sides are snapshots of one place: when both are present they
\* carry the same name.
Inputs ==
    {<<l, r>> \in (TopEntities(LeftFingerprints) \cup {None})
                  \X (TopEntities(Fingerprints) \cup {None}) :
        /\ l # None /\ r # None => l.name = r.name
        /\ Opposed(l, r)
        /\ PairSize(l, r) <= MaxNodes + (IF l.kind = "Root" \/ r.kind = "Root"
                                         \/ (l = None /\ r = None)
                                         THEN 1 ELSE 0)}

(***************************************************************************)
(* util.zip_dict and the iteration of a dict.                              *)
(***************************************************************************)
\* the variant that keeps only the keys the two dicts share
zip_dict_Intersection(a, b) ==
    [key \in DOMAIN a \cap DOMAIN b |-> <<Get(a, key), Get(b, key)>>]

zip_dict(a, b) ==
    [key \in DOMAIN a \cup DOMAIN b |-> <<Get(a, key), Get(b, key)>>]

\* The orders in which names may be iterated.  A dict iterates in the order
\* of insertion and a set of strings in the order of their hashes, which
\* changes from run to run: neither is sorted.
Orders ==
    {order \in [DOMAIN NameOrder -> Names] :
        \A i, j \in DOMAIN NameOrder : order[i] = order[j] => i = j}

\* the keys of a dict in the order in which it is iterated
DictKeys(d, order) == SelectSeq(order, LAMBDA k : k \in DOMAIN d)

\* itertools.chain.from_iterable
RECURSIVE ChainFromIterable(_)
ChainFromIterable(seqs) ==
    IF seqs = << >> THEN << >>
    ELSE Head(seqs) \o ChainFromIterable(Tail(seqs))

(***************************************************************************)
(* Construction of comparisons (wood/comparison.py).  A raised exception   *)
(* is a value that every enclosing constructor passes on.                  *)
(***************************************************************************)
Raise(error) == [variant |-> "raise", error |-> error]

IsRaise(c) == c.variant = "raise"

\* Comparison.__init__
ComparisonInit(variant, l, r) ==
    IF l = None /\ r = None THEN Raise("ValueError")
    ELSE [variant |-> variant, left |-> l, right |-> r]

\* the exception raised while building the values of a dict comprehension
FirstRaise(children) ==
    IF \E k \in DOMAIN children : IsRaise(children[k])
    THEN children[CHOOSE k \in DOMAIN children : IsRaise(children[k])]
    ELSE None

WithChildren(base, children) ==
    IF IsRaise(base) THEN base
    ELSE IF FirstRaise(children) # None THEN FirstRaise(children)
    ELSE [variant |-> base.variant, left |-> base.left, right |-> base.right,
          children |-> children]

RECURSIVE compare(_, _)

FileComparison(l, r) == ComparisonInit("FileComparison", l, r)

DirectoryComparison(l, r) ==
    LET base == ComparisonInit("DirectoryComparison", l, r)
        left_children == IF l = None THEN EmptyDict ELSE l.children
        right_children == IF r = None THEN EmptyDict ELSE r.children
        zipped == zip_dict(left_children, right_children)
    IN  IF IsRaise(base) THEN base
        ELSE WithChildren(base,
                 [name \in DOMAIN zipped |->
                     compare(zipped[name][1], zipped[name][2])])

FileDirectoryComparison(l, r) ==
    WithChildren(ComparisonInit("FileDirectoryComparison", l, r),
                 [name \in DOMAIN r.children |->
                     compare(None, r.children[name])])

\* the variant that pairs the children of the directory as new entities
DirectoryFileComparison_ChildrenAsNew(l, r) ==
    WithChildren(ComparisonInit("DirectoryFileComparison", l, r),
                 [name \in DOMAIN l.children |->
                     compare(None, l.children[name])])

DirectoryFileComparison(l, r) ==
    WithChildren(ComparisonInit("DirectoryFileComparison", l, r),
                 [name \in DOMAIN l.children |->
                     compare(l.children[name], None)])

\* the variant that tests for a file on either side first
compare_FileFirst(l, r) ==
    IF IsFile(l) \/ IsFile(r) THEN FileComparison(l, r)
    ELSE IF IsFile(l) /\ IsDirectory(r) THEN FileDirectoryComparison(l, r)
    ELSE IF IsDirectory(l) /\ IsFile(r) THEN DirectoryFileComparison(l, r)
    ELSE IF IsDirectory(l) \/ IsDirectory(r) THEN DirectoryComparison(l, r)
    ELSE Raise("TypeError")

\* the variant that lets the constructor reject two absent sides
compare_NoTypeError(l, r) ==
    IF IsFile(l) /\ IsDirectory(r) THEN FileDirectoryComparison(l, r)
    ELSE IF IsDirectory(l) /\ IsFile(r) THEN DirectoryFileComparison(l, r)
    ELSE IF IsFile(l) \/ IsFile(r) THEN FileComparison(l, r)
    ELSE DirectoryComparison(l, r)

\* Comparison.compare
compare(l, r) ==
    IF IsFile(l) /\ IsDirectory(r) THEN FileDirectoryComparison(l, r)
    ELSE IF IsDirectory(l) /\ IsFile(r) THEN DirectoryFileComparison(l, r)
    ELSE IF IsFile(l) \/ IsFile(r) THEN FileComparison(l, r)
    ELSE IF IsDirectory(l) \/ IsDirectory(r) THEN DirectoryComparison(l, r)
    ELSE Raise("TypeError")

IsReplacement(c) ==
    c.variant \in {"FileDirectoryComparison", "DirectoryFileComparison"}

HasChildren(c) == c.variant # "FileComparison"

\* A comparison tree with the order in which each children dict iterates,
\* keys.  The dict of a DirectoryComparison is filled in the order of the set
\* a.keys() | b.keys() of zip_dict, that of a replacement comparison in the
\* order of the children dict of its directory.
RECURSIVE Iterated(_, _, _)
Iterated(c, set_order, dict_order) ==
    IF HasChildren(c)
    THEN [variant |-> c.variant, left |-> c.left, right |-> c.right,
          children |-> [k \in DOMAIN c.children |->
                           Iterated(c.children[k], set_order, dict_order)],
          keys |-> DictKeys(c.children,
                            IF c.variant = "DirectoryComparison"
                            THEN set_order ELSE dict_order)]
    ELSE c

\* the child comparisons in the order of iteration of self.children
ChildValues(c) == [i \in 1 .. Len(c.keys) |-> c.children[c.keys[i]]]

(***************************************************************************)
(* The classification properties.                                          *)
(***************************************************************************)
\* the variant without the override of ReplacementComparison
is_new_NotOverridden(c) == c.left = None

\* Comparison.is_new, overridden by ReplacementComparison
is_new(c) == IF IsReplacement(c) THEN TRUE ELSE c.left = None

\* Comparison.is_deleted, overridden by ReplacementComparison
is_deleted(c) == IF IsReplacement(c) THEN TRUE ELSE c.right = None

\* the variant that does not read the fingerprints
is_modified_BothPresent(c) ==
    IF c.variant = "FileComparison"
    THEN IF is_new(c) \/ is_deleted(c) THEN FALSE
         ELSE TRUE
    ELSE FALSE

\* FileComparison.is_modified; always false in the other classes
is_modified(c) ==
    IF c.variant = "FileComparison"
    THEN IF is_new(c) \/ is_deleted(c) THEN FALSE
         ELSE c.left.md5 # c.right.md5
    ELSE FALSE

is_empty(c) ==
    IF c.variant = "FileComparison" THEN FALSE
    ELSE IF c.variant = "DirectoryComparison" THEN DOMAIN c.children = {}
    ELSE IF c.variant = "FileDirectoryComparison"
    THEN DOMAIN c.right.children = {}
    ELSE FALSE

RECURSIVE invalidate(_)
invalidate(c) ==
    IF c.variant = "FileComparison" THEN is_modified(c) \/ is_deleted(c)
    ELSE IF c.variant = "DirectoryComparison"
    THEN \A name \in DOMAIN c.children : invalidate(c.children[name])
    ELSE TRUE

(***************************************************************************)
(* The traversals.  Each returns the sequence its generator yields.        *)
(***************************************************************************)
RECURSIVE new(_, _, _)
RECURSIVE modified(_, _)
RECURSIVE deleted(_, _, _, _)
RECURSIVE invalidations(_)

\* Comparison.new: FileComparison and DirectoryFileComparison inherit it
Comparison_new(c, base, include_intermediates) ==
    IF is_new(c) THEN <<PathStr(PathDiv(base, c.right.name))>> ELSE << >>

\* the variant that yields a new directory only when it has no children
DirectoryComparison_new_OnlyLeaves(c, base, include_intermediates) ==
    IF is_deleted(c) THEN << >>
    ELSE LET us == PathDiv(base, c.right.name)
             kids == ChildValues(c)
         IN  (IF is_new(c) /\ DOMAIN c.children = {}
              THEN <<PathStr(us) \o SLASH>> ELSE << >>)
             \o ChainFromIterable(
                    [i \in DOMAIN kids |->
                        new(kids[i], us, include_intermediates)])

\* the variant that yields a new directory whatever include_intermediates
DirectoryComparison_new_Always(c, base, include_intermediates) ==
    IF is_deleted(c) THEN << >>
    ELSE LET us == PathDiv(base, c.right.name)
             kids == ChildValues(c)
         IN  (IF is_new(c) THEN <<PathStr(us) \o SLASH>> ELSE << >>)
             \o ChainFromIterable(
                    [i \in DOMAIN kids |->
                        new(kids[i], us, include_intermediates)])

\* the variant that yields a new directory after its children
DirectoryComparison_new_ChildrenFirst(c, base, include_intermediates) ==
    IF is_deleted(c) THEN << >>
    ELSE LET us == PathDiv(base, c.right.name)
             kids == ChildValues(c)
         IN  ChainFromIterable(
                 [i \in DOMAIN kids |->
                     new(kids[i], us, include_intermediates)])
             \o (IF is_new(c)
                    /\ (DOMAIN c.children = {} \/ include_intermediates)
                 THEN <<PathStr(us) \o SLASH>> ELSE << >>)

DirectoryComparison_new(c, base, include_intermediates) ==
    IF is_deleted(c) THEN << >>
    ELSE LET us == PathDiv(base, c.right.name)
             kids == ChildValues(c)
         IN  (IF is_new(c) /\ (DOMAIN c.children = {} \/ include_intermediates)
              THEN <<PathStr(us) \o SLASH>> ELSE << >>)
             \o ChainFromIterable(
                    [i \in DOMAIN kids |->
                        new(kids[i], us, include_intermediates)])

\* the variant that yields the directory unconditionally
FileDirectoryComparison_new_Always(c, base, include_intermediates) ==
    LET us == PathDiv(base, c.right.name)
        kids == ChildValues(c)
    IN  <<PathStr(us) \o SLASH>>
        \o ChainFromIterable(
               [i \in DOMAIN kids |-> new(kids[i], us, include_intermediates)])

\* the variant without the override: the directory is reported as a file
\* and its children are not visited
FileDirectoryComparison_new_Inherited(c, base, include_intermediates) ==
    Comparison_new(c, base, include_intermediates)

FileDirectoryComparison_new(c, base, include_intermediates) ==
    LET us == PathDiv(base, c.right.name)
        kids == ChildValues(c)
    IN  (IF DOMAIN c.children = {} \/ include_intermediates
         THEN <<PathStr(us) \o SLASH>> ELSE << >>)
        \o ChainFromIterable(
               [i \in DOMAIN kids |-> new(kids[i], us, include_intermediates)])

new(c, base, include_intermediates) ==
    IF c.variant = "DirectoryComparison"
    THEN DirectoryComparison_new(c, base, include_intermediates)
    ELSE IF c.variant = "FileDirectoryComparison"
    THEN FileDirectoryComparison_new(c, base, include_intermediates)
    ELSE Comparison_new(c, base, include_intermediates)

\* Comparison.modified: every class but DirectoryComparison inherits it
Comparison_modified(c, base) ==
    IF is_modified(c) THEN <<PathStr(PathDiv(base, c.right.name))>> ELSE << >>

DirectoryComparison_modified(c, base) ==
    IF ~is_deleted(c)
    THEN LET us == PathDiv(base, c.right.name)
             kids == ChildValues(c)
         IN  ChainFromIterable([i \in DOMAIN kids |-> modified(kids[i], us)])
    ELSE << >>

modified(c, base) ==
    IF c.variant = "DirectoryComparison"
    THEN DirectoryComparison_modified(c, base)
    ELSE Comparison_modified(c, base)

\* Comparison.deleted: FileComparison and FileDirectoryComparison inherit it
Comparison_deleted(c, base, include_children, include_directories) ==
    IF is_deleted(c) THEN <<PathStr(PathDiv(base, c.left.name))>> ELSE << >>

\* the variant that yields a deleted directory without the separator
DirectoryComparison_deleted_NoSeparator(c, base, include_children, include_directories) ==
    IF is_new(c) THEN << >>
    ELSE LET us == PathDiv(base, c.left.name)
             kids == ChildValues(c)
         IN  (IF is_deleted(c) /\ include_directories
              THEN <<PathStr(us)>> ELSE << >>)
             \o (IF ~is_deleted(c) \/ include_children
                 THEN ChainFromIterable(
                          [i \in DOMAIN kids |->
                              deleted(kids[i], us, include_children,
                                      include_directories)])
                 ELSE << >>)

\* the variant that visits the children of a deleted directory only when
\* directories are included
DirectoryComparison_deleted_FlagsTied(c, base, include_children, include_directories) ==
    IF is_new(c) THEN << >>
    ELSE LET us == PathDiv(base, c.left.name)
             kids == ChildValues(c)
         IN  (IF is_deleted(c) /\ include_directories
              THEN <<PathStr(us) \o SLASH>> ELSE << >>)
             \o (IF ~is_deleted(c) \/ (include_children /\ include_directories)
                 THEN ChainFromIterable(
                          [i \in DOMAIN kids |->
                              deleted(kids[i], us, include_children,
                                      include_directories)])
                 ELSE << >>)

\* the variant that visits the children whatever include_children
DirectoryComparison_deleted_ChildrenAlways(c, base, include_children, include_directories) ==
    IF is_new(c) THEN << >>
    ELSE LET us == PathDiv(base, c.left.name)
             kids == ChildValues(c)
         IN  (IF is_deleted(c) /\ include_directories
              THEN <<PathStr(us) \o SLASH>> ELSE << >>)
             \o ChainFromIterable(
                    [i \in DOMAIN kids |->
                        deleted(kids[i], us, include_children,
                                include_directories)])

DirectoryComparison_deleted(c, base, include_children, include_directories) ==
    IF is_new(c) THEN << >>
    ELSE LET us == PathDiv(base, c.left.name)
             kids == ChildValues(c)
         IN  (IF is_deleted(c) /\ include_directories
              THEN <<PathStr(us) \o SLASH>> ELSE << >>)
             \o (IF ~is_deleted(c) \/ include_children
                 THEN ChainFromIterable(
                          [i \in DOMAIN kids |->
                              deleted(kids[i], us, include_children,
                                      include_directories)])
                 ELSE << >>)

\* the variant without the override: the directory is reported as a file
\* and its children are not visited
DirectoryFileComparison_deleted_Inherited(c, base, include_children, include_directories) ==
    Comparison_deleted(c, base, include_children, include_directories)

DirectoryFileComparison_deleted(c, base, include_children, include_directories) ==
    LET us == PathDiv(base, c.left.name)
        kids == ChildValues(c)
    IN  (IF is_deleted(c) /\ include_directories
         THEN <<PathStr(us) \o SLASH>> ELSE << >>)
        \o (IF ~is_deleted(c) \/ include_children
            THEN ChainFromIterable(
                     [i \in DOMAIN kids |->
                         deleted(kids[i], us, include_children,
                                 include_directories)])
            ELSE << >>)

deleted(c, base, include_children, include_directories) ==
    IF c.variant = "DirectoryComparison"
    THEN DirectoryComparison_deleted(c, base, include_children,
                                     include_directories)
    ELSE IF c.variant = "DirectoryFileComparison"
    THEN DirectoryFileComparison_deleted(c, base, include_children,
                                         include_directories)
    ELSE Comparison_deleted(c, base, include_children, include_directories)

\* Comparison.invalidations: FileComparison and FileDirectoryComparison
\* inherit it
Comparison_invalidations(c) ==
    IF invalidate(c) THEN <<c.left.name>> ELSE << >>

\* the variant that does not exclude the empty children
DirectoryComparison_invalidations_NoSkip(c) ==
    LET name == IF is_new(c) THEN c.right.name ELSE c.left.name
        kids == ChildValues(c)
        child_invalidations ==
            ChainFromIterable([i \in DOMAIN kids |-> invalidations(kids[i])])
    IN  IF invalidate(c)
        THEN (IF name # << >> THEN <<name>> ELSE << >>)
             \o <<OsPathJoin(name, STAR)>>
        ELSE [i \in DOMAIN child_invalidations |->
                 OsPathJoin(name, child_invalidations[i])]

\* the variant that yields name + '*' for the wildcard
DirectoryComparison_invalidations_NameStar(c) ==
    LET name == IF is_new(c) THEN c.right.name ELSE c.left.name
        kids == SelectSeq(ChildValues(c), LAMBDA child : ~is_empty(child))
        child_invalidations ==
            ChainFromIterable([i \in DOMAIN kids |-> invalidations(kids[i])])
    IN  IF invalidate(c)
        THEN (IF name # << >> THEN <<name>> ELSE << >>) \o <<name \o STAR>>
        ELSE [i \in DOMAIN child_invalidations |->
                 OsPathJoin(name, child_invalidations[i])]

\* the variant that yields the name of the root as well
DirectoryComparison_invalidations_NoRootGuard(c) ==
    LET name == IF is_new(c) THEN c.right.name ELSE c.left.name
        kids == SelectSeq(ChildValues(c), LAMBDA child : ~is_empty(child))
        child_invalidations ==
            ChainFromIterable([i \in DOMAIN kids |-> invalidations(kids[i])])
    IN  IF invalidate(c)
        THEN <<name, OsPathJoin(name, STAR)>>
        ELSE [i \in DOMAIN child_invalidations |->
                 OsPathJoin(name, child_invalidations[i])]

\* the variant that yields the wildcard before the name
DirectoryComparison_invalidations_WildcardFirst(c) ==
    LET name == IF is_new(c) THEN c.right.name ELSE c.left.name
        kids == SelectSeq(ChildValues(c), LAMBDA child : ~is_empty(child))
        child_invalidations ==
            ChainFromIterable([i \in DOMAIN kids |-> invalidations(kids[i])])
    IN  IF invalidate(c)
        THEN <<OsPathJoin(name, STAR)>>
             \o (IF name # << >> THEN <<name>> ELSE << >>)
        ELSE [i \in DOMAIN child_invalidations |->
                 OsPathJoin(name, child_invalidations[i])]

DirectoryComparison_invalidations(c) ==
    LET name == IF is_new(c) THEN c.right.name ELSE c.left.name
        kids == SelectSeq(ChildValues(c), LAMBDA child : ~is_empty(child))
        child_invalidations ==
            ChainFromIterable([i \in DOMAIN kids |-> invalidations(kids[i])])
    IN  IF invalidate(c)
        THEN (IF name # << >> THEN <<name>> ELSE << >>)
             \o <<OsPathJoin(name, STAR)>>
        ELSE [i \in DOMAIN child_invalidations |->
                 OsPathJoin(name, child_invalidations[i])]

\* the variant without the override: the bare name is yielded
DirectoryFileComparison_invalidations_Inherited(c) ==
    Comparison_invalidations(c)

DirectoryFileComparison_invalidations(c) ==
    IF invalidate(c) THEN <<c.left.name \o SLASH \o STAR>> ELSE << >>

invalidations(c) ==
    IF c.variant = "DirectoryComparison"
    THEN DirectoryComparison_invalidations(c)
    ELSE IF c.variant = "DirectoryFileComparison"
    THEN DirectoryFileComparison_invalidations(c)
    ELSE Comparison_invalidations(c)

(***************************************************************************)
(* The state machine: two snapshots are given, Comparison.compare builds   *)
(* the comparison tree or raises, and the traversals are then called on    *)
(* the tree, one call after the other, in any order and any number of      *)
(* times.  A call runs its generator to the end: out is what it yielded.   *)
(***************************************************************************)
\* no call is remembered
NoCall == [op |-> "none"]

\* util.chunk has not been called
ChunkIdle ==
    /\ iterable = << >>
    /\ n = 0
    /\ iterator = 0
    /\ chunk_ = None
    /\ taken = << >>
    /\ abandoned = FALSE

Init ==
    /\ \E input \in Inputs : left = input[1] /\ right = input[2]
    /\ pc = "start"
    /\ comparison = None
    /\ raised = "none"
    /\ op = "none"
    /\ args = << >>
    /\ out = << >>
    /\ remembered = NoCall
    /\ ChunkIdle

Compare ==
    /\ pc = "start"
    /\ LET c == compare(left, right)
       IN  IF IsRaise(c)
           THEN /\ pc' = "raised"
                /\ raised' = c.error
                /\ comparison' = comparison
           ELSE /\ pc' = "compared"
                /\ raised' = raised
                /\ \E set_order \in Orders, dict_order \in Orders :
                      comparison' = Iterated(c, set_order, dict_order)
    /\ UNCHANGED <<left, right, op, args, out, remembered, chunk_vars>>

\* the variant in which children is an iterator that a traversal uses up
Traversed_Exhausted(c) ==
    IF HasChildren(c)
    THEN [c EXCEPT !.children = [k \in {} |-> None], !.keys = << >>]
    ELSE c

\* The comparison tree after a traversal: the generators read
\* self.children.values(), a view of a dict, and assign nothing.
Traversed(c) == c

New ==
    /\ pc = "compared"
    /\ \E include_intermediates \in BOOLEAN :
          /\ op' = "new"
          /\ args' = <<include_intermediates>>
          /\ out' = new(comparison, PurePath, include_intermediates)
    /\ pc' = "yielded"
    /\ comparison' = Traversed(comparison)
    /\ UNCHANGED <<left, right, raised, remembered, chunk_vars>>

Modified ==
    /\ pc = "compared"
    /\ op' = "modified"
    /\ args' = << >>
    /\ out' = modified(comparison, PurePath)
    /\ pc' = "yielded"
    /\ comparison' = Traversed(comparison)
    /\ UNCHANGED <<left, right, raised, remembered, chunk_vars>>

Deleted ==
    /\ pc = "compared"
    /\ \E include_children \in BOOLEAN, include_directories \in BOOLEAN :
          /\ op' = "deleted"
          /\ args' = <<include_children, include_directories>>
          /\ out' = deleted(comparison, PurePath, include_children,
                            include_directories)
    /\ pc' = "yielded"
    /\ comparison' = Traversed(comparison)
    /\ UNCHANGED <<left, right, raised, remembered, chunk_vars>>

Invalidations ==
    /\ pc = "compared"
    /\ op' = "invalidations"
    /\ args' = << >>
    /\ out' = invalidations(comparison)
    /\ pc' = "yielded"
    /\ comparison' = Traversed(comparison)
    /\ UNCHANGED <<left, right, raised, remembered, chunk_vars>>

\* the caller has consumed the generator and may call again
Consumed ==
    /\ pc = "yielded"
    /\ pc' = "compared"
    /\ op' = "none"
    /\ args' = << >>
    /\ out' = << >>
    /\ UNCHANGED <<left, right, comparison, raised, remembered, chunk_vars>>

\* the caller keeps what the generator yielded, and the trees it was called
\* on, and may call again
Remember ==
    /\ pc = "yielded"
    /\ remembered' = [op |-> op, args |-> args, out |-> out, left |-> left,
                      right |-> right, comparison |-> comparison]
    /\ pc' = "compared"
    /\ op' = "none"
    /\ args' = << >>
    /\ out' = << >>
    /\ UNCHANGED <<left, right, comparison, raised, chunk_vars>>

Next ==
    \/ Compare
    \/ New
    \/ Modified
    \/ Deleted
    \/ Invalidations
    \/ Consumed

Spec == Init /\ [][Next]_vars

(***************************************************************************)
(* The construction alone: the tree that compare builds from two           *)
(* snapshots.                                                              *)
(***************************************************************************)
NextCompare == Compare

SpecCompare == Init /\ [][NextCompare]_vars

(***************************************************************************)
(* The traversals that yield paths of the two trees: new(), modified() and *)
(* deleted(), the three the S3 syncer calls on a comparison.               *)
(***************************************************************************)
NextPaths ==
    \/ Compare
    \/ New
    \/ Modified
    \/ Deleted
    \/ Consumed

SpecPaths == Init /\ [][NextPaths]_vars

(***************************************************************************)
(* The traversals called again and again on one tree, the caller keeping   *)
(* one of the earlier results.  The snapshots are one node smaller than    *)
(* those of Spec.                                                          *)
(***************************************************************************)
InitRepeat ==
    /\ Init
    /\ PairSize(left, right) <= MaxNodes - 1 + (IF left.kind = "Root"
                                                  \/ right.kind = "Root"
                                                  \/ (left = None /\ right = None)
                                                 THEN 1 ELSE 0)

NextRepeat ==
    \/ Compare
    \/ New
    \/ Modified
    \/ Deleted
    \/ Invalidations
    \/ Consumed
    \/ Remember

SpecRepeat == InitRepeat /\ [][NextRepeat]_vars

(***************************************************************************)
(* util.chunk (wood/util.py) and a consumer of its chunks, as              *)
(* TestChunk._listify and the callers in the integrations are.  Every      *)
(* chunk is a peekable over an islice of the one shared iterator, so the   *)
(* elements of a chunk are only drawn from the iterable when the consumer  *)
(* takes them.  The callers pass n = 1000 and n = 30: n >= 1.              *)
(***************************************************************************)
\* the length of the longest iterable
MaxLen == 5
\* the largest n
MaxChunk == 3

Elements == {"x", "y"}

Iterables == UNION {[1 .. len -> Elements] : len \in 0 .. MaxLen}

\* more_itertools.peekable(itertools.islice(iterator, n)) after peek(): the
\* peeked element is cached, and the islice may draw remaining more
Peekable(cache, remaining) == [cache |-> cache, remaining |-> remaining]

\* next(chunk_) would raise StopIteration
ChunkExhausted ==
    \/ chunk_ = None
    \/ /\ chunk_.cache = << >>
       /\ chunk_.remaining = 0 \/ iterator = Len(iterable)

InitChunk ==
    /\ iterable \in Iterables
    /\ n \in 1 .. MaxChunk
    /\ iterator = 0
    /\ chunk_ = None
    /\ taken = << >>
    /\ abandoned = FALSE
    /\ pc = "chunk_start"
    /\ left = None
    /\ right = None
    /\ comparison = None
    /\ raised = "none"
    /\ op = "none"
    /\ args = << >>
    /\ out = << >>
    /\ remembered = NoCall

\* the variant that tests the islice with next() and hands the islice out:
\* the element drawn by the test is lost
ChunkNext_NoPeekable ==
    /\ pc \in {"chunk_start", "chunk_yielded"}
    /\ abandoned' = (abandoned \/ ~ChunkExhausted)
    /\ IF iterator < Len(iterable)
       THEN /\ chunk_' = Peekable(<< >>, n - 1)
            /\ iterator' = iterator + 1
            /\ taken' = Append(taken, << >>)
            /\ pc' = "chunk_yielded"
       ELSE /\ pc' = "chunk_returned"
            /\ UNCHANGED <<chunk_, iterator, taken>>
    /\ UNCHANGED <<iterable, n, comparison_vars>>

\* next() on the generator: one turn of the loop of chunk.  A new islice of
\* the shared iterator is wrapped and peeked, which draws its first element;
\* the generator returns when there is none and yields the chunk otherwise.
\* The consumer starts a new list for the chunk.
ChunkNext ==
    /\ pc \in {"chunk_start", "chunk_yielded"}
    /\ abandoned' = (abandoned \/ ~ChunkExhausted)
    /\ IF iterator < Len(iterable)
       THEN /\ chunk_' = Peekable(<<iterable[iterator + 1]>>, n - 1)
            /\ iterator' = iterator + 1
            /\ taken' = Append(taken, << >>)
            /\ pc' = "chunk_yielded"
       ELSE /\ pc' = "chunk_returned"
            /\ UNCHANGED <<chunk_, iterator, taken>>
    /\ UNCHANGED <<iterable, n, comparison_vars>>

\* next() on the chunk handed out last: the cached element first, then the
\* elements the islice draws from the shared iterator
ChunkTake ==
    /\ pc = "chunk_yielded"
    /\ ~ChunkExhausted
    /\ IF chunk_.cache # << >>
       THEN /\ taken' = [taken EXCEPT ![Len(taken)] = @ \o chunk_.cache]
            /\ chunk_' = Peekable(<< >>, chunk_.remaining)
            /\ iterator' = iterator
       ELSE /\ taken' = [taken EXCEPT
                            ![Len(taken)] = Append(@, iterable[iterator + 1])]
            /\ chunk_' = Peekable(<< >>, chunk_.remaining - 1)
            /\ iterator' = iterator + 1
    /\ UNCHANGED <<pc, iterable, n, abandoned, comparison_vars>>

NextChunk ==
    \/ ChunkNext
    \/ ChunkTake

SpecChunk == InitChunk /\ [][NextChunk]_vars

(***************************************************************************)
(* Vocabulary of the properties: the two entity trees read path by path,   *)
(* independently of the comparison tree.                                   *)
(***************************************************************************)
OutSet == {out[i] : i \in DOMAIN out}

SeqToSet(seq) == {seq[i] : i \in DOMAIN seq}

\* every entity strictly beneath e, with the parts of its path from e
RECURSIVE Walk(_, _)
Walk(e, parts) ==
    IF IsDirectory(e)
    THEN UNION {{<<Append(parts, k), e.children[k]>>}
                   \cup Walk(e.children[k], Append(parts, k)) :
                k \in DOMAIN e.children}
    ELSE {}

\* the entity of a tree at a path, None when there is none
RECURSIVE Lookup(_, _)
Lookup(e, parts) ==
    IF parts = << >> THEN e
    ELSE IF IsDirectory(e) /\ Head(parts) \in DOMAIN e.children
    THEN Lookup(e.children[Head(parts)], Tail(parts))
    ELSE None

SameKind(a, b) ==
    \/ IsFile(a) /\ IsFile(b)
    \/ IsDirectory(a) /\ IsDirectory(b)

\* a path as new() and deleted() render it
Render(parts, e) ==
    IF IsDirectory(e) THEN JoinParts(parts) \o SLASH ELSE JoinParts(parts)

BothRoots == left.kind = "Root" /\ right.kind = "Root"

HasCompared == pc \in {"compared", "yielded"}

Called(operation) == pc = "yielded" /\ op = operation

IsUnchangedFile(l, r) == IsFile(l) /\ IsFile(r) /\ l.md5 = r.md5

IsModifiedFile(l, r) == IsFile(l) /\ IsFile(r) /\ l.md5 # r.md5

(***************************************************************************)
(* C1.  In a directory with two sub-directories, every file of S modified  *)
(* and the other sub-directory unchanged, invalidations() yields exactly   *)
(* one entry, the wildcard '<top>/S/*' ('S/*' under a Root), and no bare   *)
(* 'S' entry.  Stated for an unchanged sub-directory that holds a file, as *)
(* in test_directory_not_removed.                                          *)
(***************************************************************************)
PartiallyChanged(S, other) ==
    /\ IsDirectory(left) /\ IsDirectory(right)
    /\ DOMAIN left.children = {S, other}
    /\ DOMAIN right.children = {S, other}
    /\ S # other
    /\ IsDirectory(left.children[S]) /\ IsDirectory(right.children[S])
    /\ DOMAIN left.children[S].children # {}
    /\ DOMAIN left.children[S].children = DOMAIN right.children[S].children
    /\ \A f \in DOMAIN left.children[S].children :
          IsModifiedFile(left.children[S].children[f],
                         right.children[S].children[f])
    /\ IsDirectory(left.children[other])
    /\ left.children[other] = right.children[other]
    /\ \E f \in DOMAIN left.children[other].children :
          IsFile(left.children[other].children[f])

C1_OnlyTheWildcardOfTheChangedDirectory ==
    \A S \in Names, other \in Names :
        Called("invalidations") /\ PartiallyChanged(S, other)
        => out = <<OsPathJoin(left.name, S \o SLASH \o STAR)>>

(***************************************************************************)
(* C2.  For two Root trees, new() with default options yields exactly the  *)
(* paths of the right tree with no counterpart of the same kind at the     *)
(* same path on the left, directories with a trailing '/'.                 *)
(***************************************************************************)
ExpectedNew ==
    {Render(w[1], w[2]) :
        w \in {v \in Walk(right, << >>) :
                  ~SameKind(Lookup(left, v[1]), v[2])}}

C2_NewIsTheRightOnlyPaths ==
    Called("new") /\ args = <<TRUE>> /\ BothRoots => OutSet = ExpectedNew

C2_Witness ==
    /\ Called("new") /\ args = <<TRUE>> /\ BothRoots
    /\ \E k \in DOMAIN comparison.children :
          /\ comparison.children[k].variant = "FileDirectoryComparison"
          /\ DOMAIN comparison.children[k].children # {}
    /\ \E k \in DOMAIN comparison.children :
          /\ comparison.children[k].variant = "DirectoryComparison"
          /\ comparison.children[k].left = None
    /\ Cardinality(OutSet) >= 3

(***************************************************************************)
(* C3.  For two Root trees, deleted() with default options yields exactly  *)
(* the paths of the left tree with no counterpart of the same kind at the  *)
(* same path on the right, directories with a trailing '/'.                *)
(***************************************************************************)
ExpectedDeleted ==
    {Render(w[1], w[2]) :
        w \in {v \in Walk(left, << >>) :
                  ~SameKind(v[2], Lookup(right, v[1]))}}

C3_DeletedIsTheLeftOnlyPaths ==
    Called("deleted") /\ args = <<TRUE, TRUE>> /\ BothRoots
    => OutSet = ExpectedDeleted

C3_Witness ==
    /\ Called("deleted") /\ args = <<TRUE, TRUE>> /\ BothRoots
    /\ \E k \in DOMAIN comparison.children :
          /\ comparison.children[k].variant = "DirectoryFileComparison"
          /\ DOMAIN comparison.children[k].children # {}
    /\ \E k \in DOMAIN comparison.children :
          /\ comparison.children[k].variant = "DirectoryComparison"
          /\ comparison.children[k].right = None
    /\ Cardinality(OutSet) >= 3

(***************************************************************************)
(* C4.  Every file path yielded by modified() or by deleted() is covered   *)
(* by an entry of invalidations(): the entry is the path, or a wildcard    *)
(* 'p/*' (or '*') of an ancestor directory p of the path.                  *)
(***************************************************************************)
WILDCARD == SLASH \o STAR

Covers(entry, path) ==
    \/ entry = path
    \/ entry = STAR
    \/ /\ EndsWith(entry, WILDCARD)
       /\ StartsWith(path, SubSeq(entry, 1, Len(entry) - 1))

FilePaths(paths) == {path \in paths : ~EndsWith(path, SLASH)}

ChangedFilePaths ==
    FilePaths(SeqToSet(modified(comparison, PurePath)))
    \cup FilePaths(SeqToSet(deleted(comparison, PurePath, TRUE, TRUE)))

C4_InvalidationsCoverAllChanges ==
    Called("invalidations")
    => \A path \in ChangedFilePaths : \E entry \in OutSet : Covers(entry, path)

(***************************************************************************)
(* Every node of a comparison tree.                                        *)
(***************************************************************************)
RECURSIVE Nodes(_)
Nodes(c) ==
    {c} \cup (IF HasChildren(c)
              THEN UNION {Nodes(c.children[k]) : k \in DOMAIN c.children}
              ELSE {})

AllNodes == IF HasCompared THEN Nodes(comparison) ELSE {}

Absent(e) == e = None

TypeSwap(l, r) ==
    \/ IsFile(l) /\ IsDirectory(r)
    \/ IsDirectory(l) /\ IsFile(r)

(***************************************************************************)
(* C5.  As stated: for every node of every comparison tree, in all four    *)
(* variants, is_new is true exactly when left is absent and is_deleted     *)
(* exactly when right is absent.                                           *)
(***************************************************************************)
C5_NewIffLeftAbsent ==
    \A c \in AllNodes :
        /\ is_new(c) <=> Absent(c.left)
        /\ is_deleted(c) <=> Absent(c.right)

(***************************************************************************)
(* C5, amended.  is_new is true exactly when left is absent or the node is *)
(* a type swap (a file on one side, a directory on the other, both         *)
(* present); is_deleted exactly when right is absent or the node is a type *)
(* swap.                                                                   *)
(***************************************************************************)
C5_NewIffLeftAbsentOrTypeSwap ==
    \A c \in AllNodes :
        /\ is_new(c) <=> (Absent(c.left) \/ TypeSwap(c.left, c.right))
        /\ is_deleted(c) <=> (Absent(c.right) \/ TypeSwap(c.left, c.right))

C5_Witness ==
    /\ HasCompared
    /\ \E c \in AllNodes : TypeSwap(c.left, c.right) /\ c # comparison
    /\ \E c \in AllNodes : Absent(c.left)
    /\ \E c \in AllNodes : Absent(c.right)
    /\ \E c \in AllNodes : ~Absent(c.left) /\ ~Absent(c.right)
                           /\ ~TypeSwap(c.left, c.right)

(***************************************************************************)
(* C6.  As stated: compare returns a comparison whenever a side is         *)
(* present, and compare(absent, absent) fails with the condition that the  *)
(* constructor of Comparison raises for two absent sides (ValueError).     *)
(***************************************************************************)
C6_BothAbsentRaisesTheConstructorError ==
    pc # "start"
    => /\ ~(Absent(left) /\ Absent(right)) => HasCompared
       /\ Absent(left) /\ Absent(right)
          => pc = "raised" /\ raised = "ValueError"

(***************************************************************************)
(* C6, amended.  compare returns a comparison whenever a side is present,  *)
(* at every depth, and compare(absent, absent) always fails, with the      *)
(* TypeError that compare itself raises: the constructor is not reached.   *)
(***************************************************************************)
C6_BothAbsentRaisesTypeError ==
    pc # "start"
    => /\ ~(Absent(left) /\ Absent(right))
          => /\ HasCompared
             /\ raised = "none"
             /\ \A c \in AllNodes : ~IsRaise(c)
       /\ Absent(left) /\ Absent(right)
          => pc = "raised" /\ raised = "TypeError"

C6_Witness == pc = "raised" /\ Absent(left) /\ Absent(right)

(***************************************************************************)
(* C7.  compare selects the variant by the kinds of the two sides as the   *)
(* dispatch table states, Root counting as a directory, at every node.     *)
(***************************************************************************)
KindOf(e) ==
    IF e.kind = "File" THEN "file"
    ELSE IF e.kind \in {"Directory", "Root"} THEN "directory"
    ELSE "absent"

DispatchTable ==
    [kinds \in {<<"file", "file">>, <<"file", "absent">>,
                <<"absent", "file">>} |-> "FileComparison"]
    @@ [kinds \in {<<"file", "directory">>} |-> "FileDirectoryComparison"]
    @@ [kinds \in {<<"directory", "file">>} |-> "DirectoryFileComparison"]
    @@ [kinds \in {<<"directory", "directory">>, <<"directory", "absent">>,
                   <<"absent", "directory">>} |-> "DirectoryComparison"]

C7_VariantFollowsTheDispatchTable ==
    HasCompared
    => /\ comparison.left = left /\ comparison.right = right
       /\ \A c \in AllNodes :
             /\ <<KindOf(c.left), KindOf(c.right)>> \in DOMAIN DispatchTable
             /\ c.variant = DispatchTable[<<KindOf(c.left), KindOf(c.right)>>]

C7_Witness ==
    /\ HasCompared
    /\ left.kind = "Root"
    /\ \E c \in AllNodes : c.variant = "FileDirectoryComparison"
    /\ \E c \in AllNodes : c.variant = "DirectoryFileComparison"

(***************************************************************************)
(* Paths as invalidations() renders them: the names from the top entity    *)
(* down, the top's own name included unless it is empty.                   *)
(***************************************************************************)
\* every entity of a tree, the top included, with its rendered path
FullWalk(top) ==
    IF top = None THEN {}
    ELSE {<<top.name, top>>}
         \cup {<<OsPathJoin(top.name, JoinParts(w[1])), w[2]>> :
                  w \in Walk(top, << >>)}

DirectoryPaths ==
    {w[1] : w \in {v \in FullWalk(left) \cup FullWalk(right) :
                      IsDirectory(v[2])}}

\* the paths that are a file with the same fingerprint on both sides
UnchangedFilePaths ==
    {w[1] : w \in {v \in FullWalk(left) :
                      \E u \in FullWalk(right) :
                          u[1] = v[1] /\ IsUnchangedFile(v[2], u[2])}}

\* the paths that are a directory without children on both sides
UnchangedEmptyDirectoryPaths ==
    {w[1] : w \in {v \in FullWalk(left) :
                      /\ IsDirectory(v[2]) /\ DOMAIN v[2].children = {}
                      /\ v \in FullWalk(right)}}

Under(path, directory) ==
    IF directory = << >> THEN path # << >>
    ELSE StartsWith(path, directory \o SLASH)

\* the comparison nodes with their rendered paths, the top included
RECURSIVE CmpWalk(_, _)
CmpWalk(c, path) ==
    {<<path, c>>}
    \cup (IF HasChildren(c)
          THEN UNION {CmpWalk(c.children[k], OsPathJoin(path, k)) :
                         k \in DOMAIN c.children}
          ELSE {})

TopPath == IF left = None THEN right.name ELSE left.name

HasStar(s) == \E i \in DOMAIN s : s[i] = "*"

\* a named empty directory, or a tree of empty directories, on both sides
OnlyUnchangedEmptyDirectories ==
    /\ left = right
    /\ IsDirectory(left)
    /\ left.name # << >> \/ DOMAIN left.children # {}
    /\ \A w \in Walk(left, << >>) : IsDirectory(w[2])

(***************************************************************************)
(* C8.  As stated: an unchanged empty directory contributes no entry to    *)
(* invalidations(), also when invalidations() is called on the directory   *)
(* itself or on a tree that consists only of unchanged empty directories.  *)
(***************************************************************************)
C8_UnchangedEmptyDirectoriesYieldNothing ==
    Called("invalidations") /\ OnlyUnchangedEmptyDirectories => out = << >>

(***************************************************************************)
(* C8, amended.  An unchanged empty directory whose parent comparison is   *)
(* not wholly invalidated (its invalidate is false) contributes no entry:  *)
(* no entry is its path or lies beneath its path.  Called on an unchanged  *)
(* empty directory itself, invalidations() yields its name (unless it is   *)
(* the nameless Root) and its wildcard.                                    *)
(***************************************************************************)
C8_SkippedUnderAParentThatIsNotInvalidated ==
    Called("invalidations")
    => /\ \A w \in CmpWalk(comparison, TopPath) :
             /\ w[2].variant = "DirectoryComparison"
             /\ ~invalidate(w[2])
             => \A k \in DOMAIN w[2].children :
                   OsPathJoin(w[1], k) \in UnchangedEmptyDirectoryPaths
                   => \A entry \in OutSet :
                         /\ entry # OsPathJoin(w[1], k)
                         /\ ~Under(entry, OsPathJoin(w[1], k))
       /\ IsDirectory(left) /\ left = right /\ DOMAIN left.children = {}
          => out = (IF left.name = << >> THEN << >> ELSE <<left.name>>)
                   \o <<OsPathJoin(left.name, STAR)>>

C8_Witness ==
    /\ Called("invalidations")
    /\ comparison.variant = "DirectoryComparison"
    /\ ~invalidate(comparison)
    /\ \E k \in DOMAIN comparison.children :
          OsPathJoin(TopPath, k) \in UnchangedEmptyDirectoryPaths
    /\ out # << >>

(***************************************************************************)
(* C9.  As stated: a wildcard yielded for directory path p has the form    *)
(* p + '/*', never p + '*', and no file under p is unchanged.  Stated for  *)
(* two Root trees that have children.                                      *)
(***************************************************************************)
BothRootsWithChildren ==
    /\ BothRoots
    /\ DOMAIN left.children # {}
    /\ DOMAIN right.children # {}

C9_WildcardIsPathSlashStar ==
    Called("invalidations") /\ BothRootsWithChildren
    => \A entry \in OutSet :
          HasStar(entry)
          => /\ EndsWith(entry, WILDCARD)
             /\ SubSeq(entry, 1, Len(entry) - 2) \in DirectoryPaths
             /\ \A path \in UnchangedFilePaths :
                   ~Under(path, SubSeq(entry, 1, Len(entry) - 2))

(***************************************************************************)
(* C9, amended.  A wildcard yielded for directory path p has the form      *)
(* p + '/*', or is exactly '*' when p is the nameless top-level Root; it   *)
(* is never p + '*' for a named directory, and no file under p is          *)
(* unchanged.                                                              *)
(***************************************************************************)
WildcardDirectory(entry) ==
    IF entry = STAR THEN << >> ELSE SubSeq(entry, 1, Len(entry) - 2)

C9_WildcardIsPathSlashStarOrStarOfRoot ==
    Called("invalidations")
    => \A entry \in OutSet :
          HasStar(entry)
          => /\ \/ entry = STAR /\ TopPath = << >>
                \/ EndsWith(entry, WILDCARD) /\ Len(entry) > 2
             /\ ~HasStar(WildcardDirectory(entry))
             /\ WildcardDirectory(entry) \in DirectoryPaths
             /\ \A path \in UnchangedFilePaths :
                   ~Under(path, WildcardDirectory(entry))

C9_Witness ==
    /\ Called("invalidations")
    /\ BothRoots
    /\ <<"a", "/", "*">> \in OutSet
    /\ \E path \in UnchangedFilePaths : StartsWith(path, <<"a", "b", "/">>)

Entities(top) ==
    IF top = None THEN {}
    ELSE {<<PathDiv(PurePath, top.name), top>>}
         \cup {<<PathDiv(PurePath, top.name) \o w[1], w[2]>> :
                  w \in Walk(top, << >>)}

\* the entity of a tree at a path from the default base, None when there
\* is none
At(top, parts) ==
    IF top = None THEN None
    ELSE IF top.name = << >> THEN Lookup(top, parts)
    ELSE IF parts # << >> /\ Head(parts) = top.name
    THEN Lookup(top, Tail(parts))
    ELSE None

StripSlash(s) == IF EndsWith(s, SLASH) THEN SubSeq(s, 1, Len(s) - 1) ELSE s

\* a string split at every '/'
RECURSIVE Split(_)
Split(s) ==
    IF \E i \in DOMAIN s : s[i] = "/"
    THEN LET i == CHOOSE k \in DOMAIN s :
                      s[k] = "/" /\ \A j \in 1 .. k - 1 : s[j] # "/"
         IN  <<SubSeq(s, 1, i - 1)>> \o Split(SubSeq(s, i + 1, Len(s)))
    ELSE <<s>>

\* the parts of the path that a yielded string denotes: the string without
\* its trailing '/', split at '/'; '.' is the path with no parts
PartsOf(entry) ==
    IF StripSlash(entry) = DOT THEN << >> ELSE Split(StripSlash(entry))

\* the side whose entities a traversal reports
ReportedSide == IF op = "deleted" THEN left ELSE right

DirectoryEntries(paths) == {path \in paths : EndsWith(path, SLASH)}

(***************************************************************************)
(* C11.  In the output of new(), modified() and deleted(), for every       *)
(* combination of their options, every string is the path of an entity of  *)
(* the reported side (right for new and modified, left for deleted) and ends *)
(* in '/' if and only if that entity is a directory; the file side of a    *)
(* type swap never ends in '/'.                                            *)
(***************************************************************************)
C11_TrailingSlashIffDirectory ==
    Called("new") \/ Called("modified") \/ Called("deleted")
    => \A entry \in OutSet :
          LET parts == PartsOf(entry)
              e == At(ReportedSide, parts)
          IN  /\ StripSlash(entry) = PathStr(parts)
              /\ e # None
              /\ IsDirectory(e) <=> EndsWith(entry, SLASH)

C11_Witness ==
    /\ Called("deleted")
    /\ \E c \in AllNodes : c.variant = "FileDirectoryComparison"
    /\ \E c \in AllNodes : c.variant = "DirectoryFileComparison"
    /\ DirectoryEntries(OutSet) # {}
    /\ Cardinality(FilePaths(OutSet)) >= 2

(***************************************************************************)
(* C12.  deleted(include_children=True, include_directories=False) yields  *)
(* no path ending in '/', and exactly the file paths that                  *)
(* deleted(include_directories=True) yields: the files of the left tree    *)
(* with no file at the same path on the right, those under deleted         *)
(* directories and under directories replaced by a file included.          *)
(***************************************************************************)
DeletedFiles ==
    {PathStr(w[1]) :
        w \in {v \in Entities(left) : IsFile(v[2]) /\ ~IsFile(At(right, v[1]))}}

C12_DroppingDirectoriesKeepsTheFiles ==
    Called("deleted") /\ args = <<TRUE, FALSE>>
    => /\ DirectoryEntries(OutSet) = {}
       /\ OutSet = FilePaths(SeqToSet(deleted(comparison, PurePath, TRUE, TRUE)))
       /\ OutSet = DeletedFiles

C12_Witness ==
    /\ Called("deleted") /\ args = <<TRUE, FALSE>>
    /\ \E c \in AllNodes :
          c.variant = "DirectoryFileComparison" /\ DOMAIN c.children # {}
    /\ \E c \in AllNodes :
          /\ c.variant = "DirectoryComparison" /\ c.right = None
          /\ DOMAIN c.children # {}
    /\ Cardinality(OutSet) >= 2

(***************************************************************************)
(* C13.  new(include_intermediates=False) yields the same file paths as    *)
(* new(include_intermediates=True), the files of the right tree with no    *)
(* file at the same path on the left, and a directory path only for a new  *)
(* directory (no directory at the same path on the left) without children; *)
(* new(include_intermediates=True) yields every new directory as well.     *)
(***************************************************************************)
NewFiles ==
    {PathStr(w[1]) :
        w \in {v \in Entities(right) : IsFile(v[2]) /\ ~IsFile(At(left, v[1]))}}

NewDirectories(include_intermediates) ==
    {PathStr(w[1]) \o SLASH :
        w \in {v \in Entities(right) :
                  /\ IsDirectory(v[2])
                  /\ ~IsDirectory(At(left, v[1]))
                  /\ include_intermediates \/ DOMAIN v[2].children = {}}}

C13_IntermediatesAreTheNewDirectoriesWithChildren ==
    Called("new")
    => /\ FilePaths(OutSet) = NewFiles
       /\ DirectoryEntries(OutSet) = NewDirectories(args[1])

C13_Witness ==
    /\ Called("new") /\ args = <<FALSE>>
    /\ NewDirectories(FALSE) # {}
    /\ NewDirectories(TRUE) # NewDirectories(FALSE)
    /\ NewFiles # {}

(***************************************************************************)
(* C17.  As stated: FileDirectoryComparison.new yields its own path with a *)
(* trailing separator for both values of include_intermediates, also when  *)
(* include_intermediates is false and the right directory has children,    *)
(* and yields it before the output of its children.                        *)
(***************************************************************************)
\* the positions of out at which a string is yielded
Positions(entry) == {i \in DOMAIN out : out[i] = entry}

\* the positions of out that hold a path beneath a directory path
PositionsUnder(path) ==
    {i \in DOMAIN out : Under(StripSlash(out[i]), path)}

FileDirectoryComparisons ==
    {w \in CmpWalk(comparison, TopPath) :
        w[2].variant = "FileDirectoryComparison"}

C17_ReplacingDirectoryIsAlwaysYielded ==
    Called("new")
    => \A w \in FileDirectoryComparisons :
          /\ Positions(w[1] \o SLASH) # {}
          /\ \A i \in Positions(w[1] \o SLASH), j \in PositionsUnder(w[1]) :
                i < j

(***************************************************************************)
(* C17, amended.  FileDirectoryComparison.new yields its own path with a   *)
(* trailing separator, once, when include_intermediates is true or the     *)
(* right directory has no children, and does not yield it when             *)
(* include_intermediates is false and the right directory has children;    *)
(* when yielded it comes before the output of its children, which is       *)
(* yielded in both cases.                                                  *)
(***************************************************************************)
C17_ReplacingDirectoryIsYieldedAsAnIntermediate ==
    Called("new")
    => \A w \in FileDirectoryComparisons :
          /\ Cardinality(Positions(w[1] \o SLASH))
             = (IF args[1] \/ DOMAIN w[2].right.children = {} THEN 1 ELSE 0)
          /\ \A i \in Positions(w[1] \o SLASH), j \in PositionsUnder(w[1]) :
                i < j
          /\ DOMAIN w[2].right.children # {} => PositionsUnder(w[1]) # {}

C17_Witness ==
    /\ Called("new") /\ args = <<FALSE>>
    /\ \E w \in FileDirectoryComparisons :
          /\ DOMAIN w[2].right.children # {}
          /\ Positions(w[1] \o SLASH) = {}
          /\ PositionsUnder(w[1]) # {}

C15_ChunksPartitionTheInput ==
    pc = "chunk_returned" /\ ~abandoned
    => /\ ChainFromIterable(taken) = iterable
       /\ \A i \in DOMAIN taken :
             /\ Len(taken[i]) >= 1
             /\ Len(taken[i]) <= n
             /\ i < Len(taken) => Len(taken[i]) = n
       /\ iterable = << >> => taken = << >>

C15_Witness ==
    /\ pc = "chunk_returned" /\ ~abandoned
    /\ n = 2
    /\ Len(iterable) = 5
    /\ Len(taken) = 3
    /\ Len(taken[3]) = 1

(***************************************************************************)
(* C16.  In the tree that compare returns, the children of every           *)
(* DirectoryComparison are keyed by exactly the union of the child names   *)
(* of its left and right directories, an absent side contributing none,    *)
(* each key once, and the child under k compares the left child k (or      *)
(* absent) with the right child k (or absent): it is what compare builds   *)
(* from the two.  zip_dict maps each key of the union to that pair.        *)
(***************************************************************************)
ChildrenOf(e) == IF e = None THEN EmptyDict ELSE e.children

C16_ChildrenAreTheZippedUnion ==
    pc = "compared"
    => \A c \in AllNodes :
          c.variant = "DirectoryComparison"
          => LET a == ChildrenOf(c.left)
                 b == ChildrenOf(c.right)
             IN  /\ DOMAIN c.children = DOMAIN a \cup DOMAIN b
                 /\ SeqToSet(c.keys) = DOMAIN c.children
                 /\ Len(c.keys) = Cardinality(DOMAIN c.children)
                 /\ DOMAIN zip_dict(a, b) = DOMAIN a \cup DOMAIN b
                 /\ \A k \in DOMAIN c.children :
                       /\ zip_dict(a, b)[k] = <<Get(a, k), Get(b, k)>>
                       /\ c.children[k].left = Get(a, k)
                       /\ c.children[k].right = Get(b, k)
                       /\ \E set_order \in Orders, dict_order \in Orders :
                             c.children[k]
                             = Iterated(compare(Get(a, k), Get(b, k)),
                                        set_order, dict_order)

C16_Witness ==
    /\ pc = "compared"
    /\ \E c \in AllNodes :
          /\ c.variant = "DirectoryComparison"
          /\ DOMAIN ChildrenOf(c.left) \ DOMAIN ChildrenOf(c.right) # {}
          /\ DOMAIN ChildrenOf(c.right) \ DOMAIN ChildrenOf(c.left) # {}
    /\ \E c \in AllNodes :
          /\ c.variant = "DirectoryComparison"
          /\ DOMAIN ChildrenOf(c.left) \cap DOMAIN ChildrenOf(c.right) # {}
    /\ \E c \in AllNodes :
          c.variant = "DirectoryComparison" /\ c.left = None

(***************************************************************************)
(* C18.  For a DirectoryComparison whose invalidate is true,               *)
(* invalidations() yields nothing from its children and exactly two        *)
(* entries in this order, the bare name and then name + '/*', when the     *)
(* name is non-empty; when the name is empty (Root) it yields the wildcard *)
(* alone, which is then '*'.  Stated for the tree invalidations() is       *)
(* called on and for every DirectoryComparison within it.                  *)
(***************************************************************************)
NameOf(c) == IF c.left = None THEN c.right.name ELSE c.left.name

NameThenWildcard(name) ==
    IF name = << >> THEN <<STAR>> ELSE <<name, name \o SLASH \o STAR>>

Rank(name) == CHOOSE i \in DOMAIN NameOrder : NameOrder[i] = name

IsPrefix(p, q) == Len(p) <= Len(q) /\ SubSeq(q, 1, Len(p)) = p

(***************************************************************************)
(* C19.  In the sequences of new(), modified() and deleted() the output of *)
(* a directory's children appears in ascending order of the child names:   *)
(* of two paths that part ways below a common directory, the one under the *)
(* smaller child name comes first.                                         *)
(***************************************************************************)
C19_ChildrenInAscendingNameOrder ==
    Called("new") \/ Called("modified") \/ Called("deleted")
    => \A i, j \in DOMAIN out :
          i < j
          => LET p == PartsOf(out[i])
                 q == PartsOf(out[j])
             IN  \A d \in DOMAIN p \cap DOMAIN q :
                    /\ SubSeq(p, 1, d - 1) = SubSeq(q, 1, d - 1)
                    /\ p[d] # q[d]
                    => Rank(p[d]) < Rank(q[d])

(***************************************************************************)
(* C20.  In the sequence of new(), for both values of                      *)
(* include_intermediates, a directory's own path, when yielded, comes      *)
(* before every yielded path of its descendants; likewise in deleted(),    *)
(* for every combination of its options, a deleted directory's own path.   *)
(***************************************************************************)
C20_DirectoryBeforeItsDescendants ==
    Called("new") \/ Called("deleted")
    => \A i, j \in DOMAIN out :
          /\ EndsWith(out[i], SLASH)
          /\ i # j
          /\ IsPrefix(PartsOf(out[i]), PartsOf(out[j]))
          => i < j

C20_Witness ==
    /\ Called("new") /\ args = <<TRUE>>
    /\ \E i, j, k \in DOMAIN out :
          /\ EndsWith(out[i], SLASH) /\ EndsWith(out[j], SLASH)
          /\ i < j /\ j < k
          /\ IsPrefix(PartsOf(out[i]), PartsOf(out[j]))
          /\ IsPrefix(PartsOf(out[j]), PartsOf(out[k]))
    /\ comparison.keys # DictKeys(comparison.children, NameOrder)

(***************************************************************************)
(* C21.  modified() yields exactly (as a set) the paths of the files that  *)
(* are a file at the same path on both sides, every ancestor being a       *)
(* directory on both sides, with different fingerprints.  It yields no     *)
(* directory path, no new or deleted file, no type-swapped path and        *)
(* nothing beneath a new, deleted or type-swapped directory.               *)
(***************************************************************************)
\* the paths above a path, down from the top entity
Ancestors(parts) ==
    {SubSeq(parts, 1, d) :
        d \in Len(PathDiv(PurePath, TopPath)) .. Len(parts) - 1}

OnBothSides(parts) == At(left, parts) # None /\ At(right, parts) # None

ModifiedFiles ==
    {PathStr(w[1]) :
        w \in {v \in Entities(right) :
                  /\ IsModifiedFile(At(left, v[1]), v[2])
                  /\ \A a \in Ancestors(v[1]) :
                        IsDirectory(At(left, a)) /\ IsDirectory(At(right, a))}}

C21_ModifiedIsTheFilesThatDiffer ==
    Called("modified")
    => /\ OutSet = ModifiedFiles
       /\ \A entry \in OutSet :
             LET parts == PartsOf(entry)
             IN  /\ ~EndsWith(entry, SLASH)
                 /\ entry = PathStr(parts)
                 /\ IsFile(At(left, parts)) /\ IsFile(At(right, parts))
                 /\ \A a \in Ancestors(parts) :
                       /\ OnBothSides(a)
                       /\ ~TypeSwap(At(left, a), At(right, a))

C21_Witness ==
    /\ Called("modified")
    /\ BothRoots
    /\ \E entry \in OutSet : Len(PartsOf(entry)) = 1
    /\ \E entry \in OutSet : Len(PartsOf(entry)) = 2
    /\ \E c \in AllNodes : c.variant = "FileComparison" /\ ~is_modified(c)

(***************************************************************************)
(* C22.  invalidations() of a DirectoryFileComparison (a directory         *)
(* replaced by a file) yields exactly one entry, the wildcard '<name>/*'   *)
(* built from the name of the left directory, and never the bare name;     *)
(* nothing is yielded for its synthetic children.  Stated for every such   *)
(* node of the tree, and for what of it reaches the output of the tree:    *)
(* the wildcard of its path and nothing else at or beneath its path, or    *)
(* nothing when a directory above it is wholly invalidated.                *)
(***************************************************************************)
DirectoryFileComparisons ==
    {w \in CmpWalk(comparison, TopPath) :
        w[2].variant = "DirectoryFileComparison"}

\* the entries that are a path or lie beneath it
EntriesAt(path) ==
    {entry \in OutSet : entry = path \/ Under(entry, path)}

C22_ReplacedDirectoryYieldsItsWildcardOnly ==
    Called("invalidations")
    => /\ comparison.variant = "DirectoryFileComparison"
          => out = <<left.name \o SLASH \o STAR>>
       /\ \A w \in DirectoryFileComparisons :
             /\ invalidations(w[2]) = <<w[2].left.name \o SLASH \o STAR>>
             /\ w[1] \notin OutSet
             /\ EntriesAt(w[1]) \in {{}, {w[1] \o SLASH \o STAR}}
             /\ Cardinality(Positions(w[1] \o SLASH \o STAR)) <= 1

C22_Witness ==
    /\ Called("invalidations")
    /\ comparison.variant = "DirectoryComparison"
    /\ ~invalidate(comparison)
    /\ \E w \in DirectoryFileComparisons :
          /\ DOMAIN w[2].children # {}
          /\ EntriesAt(w[1]) = {w[1] \o SLASH \o STAR}

(***************************************************************************)
(* C23.  deleted(include_children=False, include_directories=True) yields  *)
(* for a deleted directory, and for a directory replaced by a file, that   *)
(* directory's own path and no path beneath it; deleted files and deleted  *)
(* directories inside directories that exist on both sides are still       *)
(* yielded.  The output is exactly the topmost deletions: the entities of  *)
(* the left tree without a counterpart of the same kind on the right,      *)
(* every directory above them being a directory on both sides.             *)
(***************************************************************************)
TopmostDeleted ==
    {PathStr(w[1]) \o (IF IsDirectory(w[2]) THEN SLASH ELSE << >>) :
        w \in {v \in Entities(left) :
                  /\ ~SameKind(v[2], At(right, v[1]))
                  /\ \A a \in Ancestors(v[1]) :
                        IsDirectory(At(left, a)) /\ IsDirectory(At(right, a))}}

\* the comparison nodes with the parts of their paths, the top included
RECURSIVE CmpParts(_, _)
CmpParts(c, parts) ==
    {<<parts, c>>}
    \cup (IF HasChildren(c)
          THEN UNION {CmpParts(c.children[k], Append(parts, k)) :
                         k \in DOMAIN c.children}
          ELSE {})

\* the comparisons of a directory that is gone: deleted, or replaced by a
\* file
GoneDirectories ==
    {w \in CmpParts(comparison, PathDiv(PurePath, TopPath)) :
        \/ w[2].variant = "DirectoryComparison" /\ w[2].right = None
        \/ w[2].variant = "DirectoryFileComparison"}

C23_ChildrenOfDeletedDirectoriesAreLeftOut ==
    Called("deleted") /\ args = <<FALSE, TRUE>>
    => /\ OutSet = TopmostDeleted
       /\ \A i, j \in DOMAIN out :
             /\ EndsWith(out[i], SLASH)
             /\ IsPrefix(PartsOf(out[i]), PartsOf(out[j]))
             => i = j
       /\ \A w \in GoneDirectories :
             \A entry \in OutSet :
                IsPrefix(w[1], PartsOf(entry))
                => entry = PathStr(w[1]) \o SLASH

C23_Witness ==
    /\ Called("deleted") /\ args = <<FALSE, TRUE>>
    /\ left # None /\ right # None
    /\ \E k \in DOMAIN comparison.children :
          /\ comparison.children[k].variant = "FileComparison"
          /\ comparison.children[k].right = None
    /\ \E w \in GoneDirectories :
          /\ DOMAIN w[2].children # {}
          /\ PathStr(w[1]) \o SLASH \in OutSet
    /\ Len(out) = 2

(***************************************************************************)
(* C24.  In every comparison tree built by compare, every descendant of a  *)
(* new DirectoryComparison (left absent) has left absent, every descendant *)
(* of a deleted DirectoryComparison (right absent) has right absent, every *)
(* descendant of a FileDirectoryComparison has left absent and every       *)
(* descendant of a DirectoryFileComparison has right absent: no type swap  *)
(* and no two-sided node occurs beneath a one-sided or type-swapped node.  *)
(***************************************************************************)
\* the nodes strictly beneath a comparison
Descendants(c) ==
    IF HasChildren(c)
    THEN UNION {Nodes(c.children[k]) : k \in DOMAIN c.children}
    ELSE {}

OneSided(c) == Absent(c.left) \/ Absent(c.right)

C24_OneSidedBeneathOneSided ==
    pc = "compared"
    => \A c \in AllNodes :
          /\ c.variant = "DirectoryComparison" /\ Absent(c.left)
             => \A d \in Descendants(c) : Absent(d.left)
          /\ c.variant = "DirectoryComparison" /\ Absent(c.right)
             => \A d \in Descendants(c) : Absent(d.right)
          /\ c.variant = "FileDirectoryComparison"
             => \A d \in Descendants(c) : Absent(d.left)
          /\ c.variant = "DirectoryFileComparison"
             => \A d \in Descendants(c) : Absent(d.right)
          /\ OneSided(c) \/ IsReplacement(c)
             => \A d \in Descendants(c) :
                   /\ ~IsReplacement(d)
                   /\ ~TypeSwap(d.left, d.right)
                   /\ OneSided(d)

C24_Witness ==
    /\ pc = "compared"
    /\ \E c \in AllNodes :
          c.variant = "FileDirectoryComparison" /\ Descendants(c) # {}
    /\ \E c \in AllNodes :
          c.variant = "DirectoryFileComparison" /\ Descendants(c) # {}

(***************************************************************************)
(* C25.  For any comparison and any base, the sets of strings yielded by   *)
(* new(), modified() and deleted() with default options are pairwise       *)
(* disjoint: no rendered path is reported in two categories.  At a         *)
(* type-swapped path both new() and deleted() report the path, and the two *)
(* entries differ exactly by the trailing '/', which the directory side    *)
(* carries.  Stated for two calls made one after the other on one          *)
(* comparison, and for the other bases on what the traversals return.      *)
(***************************************************************************)
\* the default base and a base of one part
Bases == {PurePath, PathDiv(PurePath, <<"b">>)}

DefaultCall(operation, arguments) ==
    \/ operation = "new" /\ arguments = <<TRUE>>
    \/ operation = "modified" /\ arguments = << >>
    \/ operation = "deleted" /\ arguments = <<TRUE, TRUE>>

\* two of the three traversals have been called with default options, the
\* result of the first being remembered
TwoCategories ==
    /\ remembered # NoCall
    /\ pc = "yielded"
    /\ DefaultCall(op, args)
    /\ DefaultCall(remembered.op, remembered.args)
    /\ op # remembered.op

\* what the call of a traversal yielded, of the two calls made
YieldedBy(operation) ==
    IF op = operation THEN OutSet
    ELSE IF remembered.op = operation THEN SeqToSet(remembered.out)
    ELSE {}

Denoting(entries, parts) ==
    {entry \in entries : StripSlash(entry) = PathStr(parts)}

PairwiseDisjoint(A, B, C) == A \cap B = {} /\ A \cap C = {} /\ B \cap C = {}

C25_CategoriesAreDisjoint ==
    TwoCategories
    => /\ OutSet \cap SeqToSet(remembered.out) = {}
       /\ {op, remembered.op} = {"new", "deleted"}
          => \A w \in CmpParts(comparison, PathDiv(PurePath, TopPath)) :
                /\ w[2].variant = "FileDirectoryComparison"
                   => /\ Denoting(YieldedBy("new"), w[1])
                         = {PathStr(w[1]) \o SLASH}
                      /\ Denoting(YieldedBy("deleted"), w[1]) = {PathStr(w[1])}
                /\ w[2].variant = "DirectoryFileComparison"
                   => /\ Denoting(YieldedBy("new"), w[1]) = {PathStr(w[1])}
                      /\ Denoting(YieldedBy("deleted"), w[1])
                         = {PathStr(w[1]) \o SLASH}
       /\ \A base \in Bases :
             PairwiseDisjoint(SeqToSet(new(comparison, base, TRUE)),
                              SeqToSet(modified(comparison, base)),
                              SeqToSet(deleted(comparison, base, TRUE, TRUE)))

C25_Witness ==
    /\ TwoCategories
    /\ {op, remembered.op} = {"new", "deleted"}
    /\ \E c \in AllNodes : IsReplacement(c) /\ Descendants(c) # {}
    /\ \E c \in AllNodes : is_modified(c)
    /\ Cardinality(OutSet) >= 2
    /\ Len(remembered.out) >= 1

====
